---- MODULE Spec2Model ----
(***************************************************************************)
(* livegrep-gitlab-reindex (cmd/livegrep-gitlab-reindex/main.go):          *)
(* discovery -> filter -> sort -> buildConfig -> writeConfig -> delegate.  *)
(*                                                                         *)
(* Strings are sequences of byte values, so that Go's bytewise string      *)
(* order, strings.Split, path.Join and substring containment are computed  *)
(* and not assumed.  A *gitlab.Project is an index into Project.           *)
(***************************************************************************)
EXTENDS Integers, Sequences, FiniteSets, TLC

(* ------------------------------ bounds --------------------------------- *)
\* projects one discovery may accumulate (caps the unbounded paging loops)
MaxProjects == 3
\* items one page response may carry (PerPage is 100 in the code)
MaxPerPage == 1
\* largest next-page indicator the provider answers
MaxPage == 2

(* --------------------------- byte strings ------------------------------ *)
NL == 10
SLASH == 47
DOT == <<46>>
DOTDOT == <<46, 46>>

\* Go's s < t on strings: bytewise, a proper prefix is smaller
RECURSIVE StrLess(_, _)
StrLess(s, t) ==
    IF t = <<>> THEN FALSE
    ELSE IF s = <<>> THEN TRUE
    ELSE IF Head(s) # Head(t) THEN Head(s) < Head(t)
    ELSE StrLess(Tail(s), Tail(t))

\* strings.Contains(s, sub)
Contains(s, sub) ==
    \E i \in 0..(Len(s) - Len(sub)) :
        \A k \in 1..Len(sub) : s[i + k] = sub[k]

\* strings.Split(s, sep) for a one-byte separator: always at least one piece
RECURSIVE SplitFrom(_, _, _)
SplitFrom(s, sep, cur) ==
    IF s = <<>> THEN <<cur>>
    ELSE IF Head(s) = sep THEN <<cur>> \o SplitFrom(Tail(s), sep, <<>>)
    ELSE SplitFrom(Tail(s), sep, Append(cur, Head(s)))

Split(s, sep) == SplitFrom(s, sep, <<>>)

\* path.Clean on the elements of a path: drop empty and "." elements, let
\* ".." cancel the element before it, drop ".." at the root
RECURSIVE CleanElems(_, _, _)
CleanElems(elems, rooted, acc) ==
    IF elems = <<>> THEN acc
    ELSE LET e == Head(elems)
             rest == Tail(elems)
         IN  IF e = <<>> \/ e = DOT THEN CleanElems(rest, rooted, acc)
             ELSE IF e = DOTDOT THEN
                 IF acc # <<>> /\ acc[Len(acc)] # DOTDOT
                     THEN CleanElems(rest, rooted, SubSeq(acc, 1, Len(acc) - 1))
                 ELSE IF rooted THEN CleanElems(rest, rooted, acc)
                 ELSE CleanElems(rest, rooted, Append(acc, e))
             ELSE CleanElems(rest, rooted, Append(acc, e))

RECURSIVE JoinElems(_)
JoinElems(elems) ==
    IF elems = <<>> THEN <<>>
    ELSE IF Len(elems) = 1 THEN elems[1]
    ELSE elems[1] \o <<SLASH>> \o JoinElems(Tail(elems))

\* path.Clean(s)
Clean(s) ==
    LET rooted == s # <<>> /\ s[1] = SLASH
        body == JoinElems(CleanElems(Split(s, SLASH), rooted, <<>>))
    IN  IF rooted THEN <<SLASH>> \o body
        ELSE IF body = <<>> THEN DOT
        ELSE body

\* mutant: only the last element of b is joined (path.Base)
JoinBase(a, b) ==
    LET elems == Split(b, SLASH)
    IN  Clean(a \o <<SLASH>> \o elems[Len(elems)])

\* path.Join(a, b): empty elements are ignored, the rest joined and cleaned
Join(a, b) ==
    IF a = <<>> /\ b = <<>> THEN <<>>
    ELSE IF a = <<>> THEN Clean(b)
    ELSE IF b = <<>> THEN Clean(a)
    ELSE Clean(a \o <<SLASH>> \o b)

(* ------------------------- flags (main.go 22-51) ----------------------- *)
\* -dir, default "repos"
flagRepoDir == <<114, 101, 112, 111, 115>>
\* -revision, default "HEAD"
flagRevision == <<72, 69, 65, 68>>
\* -url-pattern, "https://gitlab.com/{name}" (head of the default)
flagUrlPattern ==
    <<104, 116, 116, 112, 115, 58, 47, 47, 103, 105, 116, 108, 97, 98, 46,
      99, 111, 109, 47, 123, 110, 97, 109, 101, 125>>
\* -name, default "livegrep index"
flagName == <<108, 105, 118, 101, 103, 114, 101, 112, 32, 105, 110, 100, 101, 120>>
\* -http-user, default "git"
flagHTTPUsername == <<103, 105, 116>>
\* -depth, default 0
flagDepth == 0
\* the name buildConfig writes into CloneOptions.PasswordEnv
GITLAB_TOKEN == <<71, 73, 84, 76, 65, 66, 95, 84, 79, 75, 69, 78>>

\* values of -gitlab-token: none, "git", "tk"
Tokens == { <<>>, <<103, 105, 116>>, <<116, 107>> }
\* the values a run is started with
RunTokens == { <<>>, <<103, 105, 116>> }
\* values of -group (repeated)
GroupLists == { <<>>, <<"g1", "g2">> }
\* contents the ignore-list file may have: "a/b\n", "a/c\na-b/c"
IgnoreFiles == { <<97, 47, 98, 10>>, <<97, 47, 99, 10, 97, 45, 98, 47, 99>> }

(* ---------------- the projects the provider may list ------------------- *)
SshUrl(p) == <<103, 105, 116, 64, 104, 58>> \o p \o <<46, 103, 105, 116>>
HttpUrl(p) == <<104, 116, 116, 112, 115, 58, 47, 47, 104, 47>> \o p \o <<46, 103, 105, 116>>
WebUrl(p) == <<104, 116, 116, 112, 115, 58, 47, 47, 104, 47>> \o p

MkProject(p, fork, arch) ==
    [ PathWithNamespace |-> p,
      ForkedFromProject |-> fork,
      Archived          |-> arch,
      SSHURLToRepo      |-> SshUrl(p),
      HTTPURLToRepo     |-> HttpUrl(p),
      WebURL            |-> WebUrl(p) ]

\* a/b ; a/c, a fork ; a-b/c, archived
Project ==
    <<MkProject(<<97, 47, 98>>, FALSE, FALSE),
      MkProject(<<97, 47, 99>>, TRUE, FALSE),
      MkProject(<<97, 45, 98, 47, 99>>, FALSE, TRUE)>>

ProjectIds == DOMAIN Project
RepoPaths == { Project[i].PathWithNamespace : i \in ProjectIds }

SeqsUpTo(S, n) == UNION { [1..k -> S] : k \in 0..n }

(* ------------------------------ state ---------------------------------- *)
VARIABLES
    pc,               \* position in main
    flagForks, flagArchived, flagHTTP, flagSkipMissing,
    flagGitlabToken, flagGroups,
    flagIgnorelist,   \* TRUE: -ignorelist names a file (*flagIgnorelist != "")
    ignorelist,       \* main's ignorelist: [present, set]; present = FALSE is nil
    groupIdx, page,   \* loadRepos: index of the group being swept, opt.Page
    projects,         \* loadRepos: projects accumulated / returned
    lastNext,         \* history: NextPage of the latest response, -1 before any
    served,           \* history: the items of every page answered, in order
    filtered,         \* history: what filterRepos returned
    repos,            \* main's repos from the filterRepos call on
    resolves,         \* history: paths where git rev-parse --verify succeeded
    config,           \* the IndexSpec buildConfig built
    specFile,         \* livegrep.json on disk
    launched,         \* livegrep-fetch-reindex was started
    childEnv,         \* GITLAB_TOKEN in the child's environment
    failure           \* which log.Fatal ended the run

vars == <<pc, flagForks, flagArchived, flagHTTP, flagSkipMissing,
          flagGitlabToken, flagIgnorelist, flagGroups, ignorelist,
          groupIdx, page, projects, lastNext, served, filtered, repos, resolves,
          config, specFile, launched, childEnv, failure>>

flags == <<flagForks, flagArchived, flagHTTP, flagSkipMissing,
           flagGitlabToken, flagIgnorelist, flagGroups>>

NoIgnorelist == [present |-> FALSE, set |-> {}]
NoConfig == [Name |-> <<>>, Repositories |-> <<>>]
NoFile == [exists |-> FALSE, complete |-> FALSE, content |-> NoConfig]

Init ==
    /\ pc = "loadIgnorelist"
    /\ flagForks \in BOOLEAN
    /\ flagArchived \in BOOLEAN
    /\ flagHTTP \in BOOLEAN
    /\ flagSkipMissing \in BOOLEAN
    /\ flagGitlabToken \in RunTokens
    /\ flagIgnorelist \in BOOLEAN
    /\ flagGroups \in GroupLists
    /\ ignorelist = NoIgnorelist
    /\ groupIdx = 1
    /\ page = 1
    /\ projects = <<>>
    /\ lastNext = -1
    /\ served = <<>>
    /\ filtered = <<>>
    /\ repos = <<>>
    /\ resolves = {}
    /\ config = NoConfig
    /\ specFile = NoFile
    /\ launched = FALSE
    /\ childEnv = <<>>
    /\ failure = "none"

Fatal(why) ==
    /\ pc' = "fatal"
    /\ failure' = why

(* ---------------------- loadIgnorelist, main 66-73 --------------------- *)
\* the map built from the file's lines
loadIgnorelist(data) ==
    LET lines == Split(data, NL)
    IN  { lines[i] : i \in DOMAIN lines }

LoadIgnorelist ==
    /\ pc = "loadIgnorelist"
    /\ IF ~flagIgnorelist
         THEN /\ pc' = "newClient"
              /\ UNCHANGED <<ignorelist, failure>>
         ELSE \/ /\ Fatal("ignorelist")       \* ioutil.ReadFile failed
                 /\ UNCHANGED ignorelist
              \/ \E data \in IgnoreFiles :
                    /\ ignorelist' = [present |-> TRUE, set |-> loadIgnorelist(data)]
                    /\ pc' = "newClient"
                    /\ UNCHANGED failure
    /\ UNCHANGED <<flags, groupIdx, page, projects, lastNext, served, filtered, repos,
                   resolves, config, specFile, launched, childEnv>>

(* ------------------------ gitlab.NewClient, main 75-78 ----------------- *)
NewClient ==
    /\ pc = "newClient"
    /\ \/ Fatal("client")
       \/ /\ pc' = "loadRepos"
          /\ UNCHANGED failure
    /\ UNCHANGED <<flags, ignorelist, groupIdx, page, projects, lastNext, served,
                   filtered, repos, resolves, config, specFile, launched, childEnv>>

(* --------------------------- loadRepos, 166-213 ------------------------ *)
\* the listing a request goes to: a configured group, or every accessible project
Listing == IF Len(flagGroups) > 0 THEN flagGroups[groupIdx] ELSE "all"

\* what a listing can return: ListGroupProjectsOptions carries no Archived
\* filter (172-177); ListProjectsOptions carries Archived = *flagArchived
\* (194-200), which limits the answer to projects of that archived status
Listable ==
    IF Len(flagGroups) > 0 THEN ProjectIds
    ELSE { i \in ProjectIds : Project[i].Archived = flagArchived }

\* mutant: the sweep ends on the wrong indicator
SweepEndsOnOne(next) == next = 1

\* resp.NextPage == 0 ends the sweep of the current listing
SweepEnds(next) == next = 0

\* after the last page of a listing: the next group, or return projects
LastSweep == Len(flagGroups) = 0 \/ groupIdx = Len(flagGroups)

\* opt.Page = resp.NextPage (187, 210)
NextRequest(cur, next) == next

\* one iteration of the paging loop: request opt.Page, append, follow NextPage
Fetch ==
    /\ pc = "loadRepos"
    /\ \/ /\ projects' = <<>>                 \* return nil, err
          /\ Fatal("fetch")
          /\ UNCHANGED <<groupIdx, page, lastNext, served>>
       \/ \E items \in SeqsUpTo(Listable, MaxPerPage), next \in 0..MaxPage :
             /\ Len(projects) + Len(items) <= MaxProjects
             /\ served' = served \o items
             /\ lastNext' = next
             /\ projects' = projects \o items
             /\ IF SweepEnds(next)
                  THEN IF LastSweep
                         THEN /\ pc' = "filterRepos"   \* return projects, nil
                              /\ groupIdx' = 1
                              /\ page' = 1
                         ELSE /\ groupIdx' = groupIdx + 1
                              /\ page' = 1
                              /\ UNCHANGED pc
                  ELSE /\ page' = NextRequest(page, next)
                       /\ UNCHANGED <<pc, groupIdx>>
             /\ UNCHANGED failure
    /\ UNCHANGED <<flags, ignorelist, filtered, repos, resolves, config,
                   specFile, launched, childEnv>>

(* --------------------------- filterRepos, 215-234 ---------------------- *)
\* mutant: the ignore list is consulted only when forks are excluded
KeepsIgnoringList(r, ignore, excludeForks, excludeArchived) ==
    /\ ~(excludeForks /\ Project[r].ForkedFromProject)
    /\ ~(excludeForks /\ ignore.present /\ Project[r].PathWithNamespace \in ignore.set)

\* whether the loop body keeps r
Keeps(r, ignore, excludeForks, excludeArchived) ==
    /\ ~(excludeForks /\ Project[r].ForkedFromProject)
    /\ ~(ignore.present /\ Project[r].PathWithNamespace \in ignore.set)

\* mutant: survivors are prepended, so the result comes out reversed
RECURSIVE filterReposBackwards(_, _, _, _)
filterReposBackwards(rs, ignore, excludeForks, excludeArchived) ==
    IF rs = <<>> THEN <<>>
    ELSE LET rest == filterReposBackwards(Tail(rs), ignore, excludeForks, excludeArchived)
         IN  IF Keeps(Head(rs), ignore, excludeForks, excludeArchived)
               THEN rest \o <<Head(rs)>>
               ELSE rest

RECURSIVE filterRepos(_, _, _, _)
filterRepos(rs, ignore, excludeForks, excludeArchived) ==
    IF rs = <<>> THEN <<>>
    ELSE LET rest == filterRepos(Tail(rs), ignore, excludeForks, excludeArchived)
         IN  IF Keeps(Head(rs), ignore, excludeForks, excludeArchived)
               THEN <<Head(rs)>> \o rest
               ELSE rest

\* main 85
FilterRepos ==
    /\ pc = "filterRepos"
    /\ filtered' = filterRepos(projects, ignorelist, ~flagForks, ~flagArchived)
    /\ repos' = filtered'
    /\ pc' = "sort"
    /\ UNCHANGED <<flags, ignorelist, groupIdx, page, projects, lastNext, served,
                   resolves, config, specFile, launched, childEnv, failure>>

(* ------------------- sort.Sort(ReposByName), 87, 146-150 --------------- *)
\* mutant: the comparison is turned around
LessReversed(a, b) == StrLess(Project[b].PathWithNamespace, Project[a].PathWithNamespace)

\* ReposByName.Less on two projects
Less(a, b) == StrLess(Project[a].PathWithNamespace, Project[b].PathWithNamespace)

Count(s, x) == Cardinality({ i \in DOMAIN s : s[i] = x })
IsPermutation(s, t) ==
    /\ Len(s) = Len(t)
    /\ \A x \in ProjectIds : Count(s, x) = Count(t, x)

\* sort.Sort is not stable: any arrangement with no pair out of order
SortedBy(s) == \A i, j \in DOMAIN s : i < j => ~Less(s[j], s[i])

Sort ==
    /\ pc = "sort"
    /\ \E s \in [DOMAIN repos -> ProjectIds] :
          /\ IsPermutation(s, repos)
          /\ SortedBy(s)
          /\ repos' = s
    /\ pc' = "buildConfig"
    /\ UNCHANGED <<flags, ignorelist, groupIdx, page, projects, lastNext, served,
                   filtered, resolves, config, specFile, launched, childEnv, failure>>

(* --------------------------- buildConfig, 244-298 ---------------------- *)
\* the --git-dir the rev-parse of a repository is run against
GitDir(dir, r) == Join(dir, Project[r].PathWithNamespace)
\* the git-dirs a run over rs probes
GitDirsOf(rs) == { GitDir(flagRepoDir, rs[i]) : i \in DOMAIN rs }

\* mutant: the branches are swapped
RemoteInverted(r, http) ==
    IF http THEN Project[r].SSHURLToRepo ELSE Project[r].HTTPURLToRepo

\* 268-272
Remote(r, http) ==
    IF http THEN Project[r].HTTPURLToRepo ELSE Project[r].SSHURLToRepo

\* mutant: the credential itself is written
PasswordEnvLiteral(token) == token

\* 274-277
PasswordEnv(token) == IF token # <<>> THEN GITLAB_TOKEN ELSE <<>>

\* 279-294
RepoSpec(dir, r, revision, http, token) ==
    [ Path      |-> Join(dir, Project[r].PathWithNamespace),
      Name      |-> Project[r].PathWithNamespace,
      Revisions |-> <<revision>>,
      Metadata  |-> [ Github     |-> Project[r].WebURL,
                      Remote     |-> Remote(r, http),
                      UrlPattern |-> flagUrlPattern ],
      CloneOptions |-> [ Depth       |-> flagDepth,
                         Username    |-> flagHTTPUsername,
                         PasswordEnv |-> PasswordEnv(token) ] ]

\* mutant: the rev-parse verdict is used whatever the policy
SkippedAlways(dir, r, skipMissing, resolving) ==
    GitDir(dir, r) \notin resolving

\* 253-267: with skip-missing, a repository whose rev-parse fails is skipped
Skipped(dir, r, skipMissing, resolving) ==
    skipMissing /\ GitDir(dir, r) \notin resolving

RECURSIVE Repositories(_, _, _, _, _, _, _)
Repositories(dir, rs, revision, skipMissing, http, token, resolving) ==
    IF rs = <<>> THEN <<>>
    ELSE LET rest == Repositories(dir, Tail(rs), revision, skipMissing, http,
                                  token, resolving)
         IN  IF Skipped(dir, Head(rs), skipMissing, resolving)
               THEN rest
               ELSE <<RepoSpec(dir, Head(rs), revision, http, token)>> \o rest

\* the IndexSpec that is marshalled; resolving: the git-dirs where
\* git rev-parse --verify revision exits 0
buildConfig(name, dir, rs, revision, skipMissing, http, token, resolving) ==
    [ Name |-> name,
      Repositories |-> Repositories(dir, rs, revision, skipMissing, http,
                                    token, resolving) ]

\* main 89-92; json.MarshalIndent of an IndexSpec does not fail
BuildConfig ==
    /\ pc = "buildConfig"
    /\ \E resolving \in (IF flagSkipMissing THEN SUBSET GitDirsOf(repos) ELSE {{}}) :
          /\ resolves' = resolving
          /\ config' = buildConfig(flagName, flagRepoDir, repos, flagRevision,
                                   flagSkipMissing, flagHTTP, flagGitlabToken,
                                   resolving)
    /\ pc' = "writeConfig"
    /\ UNCHANGED <<flags, ignorelist, groupIdx, page, projects, lastNext, served,
                   filtered, repos, specFile, launched, childEnv, failure>>

(* ------------------------ writeConfig, 93-96, 236-242 ------------------ *)
\* mutant: the error is logged and the run goes on
OnWriteErrorLogged(why) ==
    /\ pc' = "run"
    /\ failure' = why

\* main 94-96: an error of writeConfig is fatal
OnWriteError(why) == Fatal(why)

WriteConfig ==
    /\ pc = "writeConfig"
    /\ \/ /\ OnWriteError("mkdir")             \* os.MkdirAll failed
          /\ UNCHANGED specFile
       \/ /\ OnWriteError("write")             \* ioutil.WriteFile failed
          /\ specFile' = [exists |-> TRUE, complete |-> FALSE, content |-> NoConfig]
       \/ /\ specFile' = [exists |-> TRUE, complete |-> TRUE, content |-> config]
          /\ pc' = "run"
          /\ UNCHANGED failure
    /\ UNCHANGED <<flags, ignorelist, groupIdx, page, projects, lastNext, served,
                   filtered, repos, resolves, config, launched, childEnv>>

(* ------------------------ delegate, main 98-130 ------------------------ *)
Run ==
    /\ pc = "run"
    /\ launched' = TRUE
    /\ childEnv' = IF flagGitlabToken # <<>> THEN flagGitlabToken ELSE <<>>
    /\ \/ Fatal("run")                         \* cmd.Run returned an error
       \/ /\ pc' = "done"
          /\ UNCHANGED failure
    /\ UNCHANGED <<flags, ignorelist, groupIdx, page, projects, lastNext, served,
                   filtered, repos, resolves, config, specFile>>

Next ==
    \/ LoadIgnorelist
    \/ NewClient
    \/ Fetch
    \/ FilterRepos
    \/ Sort
    \/ BuildConfig
    \/ WriteConfig
    \/ Run

Spec == Init /\ [][Next]_vars

\* a page request that is made is answered, and loadRepos then runs its
\* loop body: no timeout, no cancellation
FairSpec == Spec /\ WF_vars(Fetch)

TypeOK ==
    /\ pc \in {"loadIgnorelist", "newClient", "loadRepos", "filterRepos", "sort",
               "buildConfig", "writeConfig", "run", "done", "fatal"}
    /\ groupIdx \in 1..(Len(flagGroups) + 1)
    /\ page \in 0..MaxPage
    /\ lastNext \in -1..MaxPage
    /\ launched \in BOOLEAN

(* ============================ properties =============================== *)
\* filterRepos has returned
Filtered ==
    \/ pc \in {"sort", "buildConfig", "writeConfig", "run", "done"}
    \/ pc = "fatal" /\ failure \in {"mkdir", "write", "run"}

\* buildConfig has returned
Built ==
    \/ pc \in {"writeConfig", "run", "done"}
    \/ pc = "fatal" /\ failure \in {"mkdir", "write", "run"}

PathOf(r) == Project[r].PathWithNamespace
Ignored(r) == ignorelist.present /\ PathOf(r) \in ignorelist.set
IsFork(r) == Project[r].ForkedFromProject
Specs == config.Repositories
\* the projects a RepoSpec can come from
Named(n) == { r \in ProjectIds : PathOf(r) = n }

RECURSIVE IsSubsequence(_, _)
IsSubsequence(s, t) ==
    IF s = <<>> THEN TRUE
    ELSE IF t = <<>> THEN FALSE
    ELSE IF Head(s) = Head(t) THEN IsSubsequence(Tail(s), Tail(t))
    ELSE IsSubsequence(s, Tail(t))

(* ---- C1 ---- *)
\* C1: whatever the ignore set (nil included) and the exclude-forks flag, no
\* project filterRepos returns has its path in the ignore set; with the set
\* read from "a/b\n", forks kept and [a/b, a/c (a fork)] discovered, the
\* result is exactly [a/c].
C1_NoIgnoredPath ==
    Filtered =>
        /\ \A i \in DOMAIN filtered : ~Ignored(filtered[i])
        /\ ( /\ ignorelist.present
             /\ ignorelist.set = loadIgnorelist(<<97, 47, 98, 10>>)
             /\ flagForks
             /\ projects = <<1, 2>> ) => filtered = <<2>>

C1_Witness ==
    /\ Filtered
    /\ ignorelist.present
    /\ ignorelist.set = loadIgnorelist(<<97, 47, 98, 10>>)
    /\ flagForks
    /\ projects = <<1, 2>>
    /\ filtered = <<2>>

(* ---- C2 ---- *)
\* C2: with exclude-forks no fork is returned, in the ignore set or not;
\* without it every occurrence of a fork is kept unless its path is in the
\* ignore set; and the result is a subsequence of the input.
C2_ForkPolicy ==
    Filtered =>
        /\ ~flagForks => \A i \in DOMAIN filtered : ~IsFork(filtered[i])
        /\ flagForks =>
              \A r \in ProjectIds :
                  IsFork(r) => Count(filtered, r) =
                                  (IF Ignored(r) THEN 0 ELSE Count(projects, r))
        /\ IsSubsequence(filtered, projects)
        /\ \A r \in ProjectIds : Count(filtered, r) \in {0, Count(projects, r)}

C2_Witness ==
    /\ Filtered
    /\ ~flagForks
    /\ \E i \in DOMAIN projects : IsFork(projects[i]) /\ Ignored(projects[i])
    /\ Len(filtered) >= 2

(* ---- C3 ---- *)
\* C3 as claimed: no two entries of IndexSpec.Repositories have the same Path.
C3_UniquePaths ==
    \A i, j \in DOMAIN Specs : i # j => Specs[i].Path # Specs[j].Path

\* C3 amended: every Path is path.Join(root, Name), two entries have the
\* same Path exactly when they have the same namespace-qualified path, and
\* there is one entry per surviving occurrence of a descriptor, so a project
\* listed twice (overlapping groups) appears twice with the same Path.
C3_PathPerName ==
    Built =>
        /\ \A i \in DOMAIN Specs : Specs[i].Path = flagRepoDir \o <<SLASH>> \o Specs[i].Name
        /\ \A i, j \in DOMAIN Specs :
              (Specs[i].Path = Specs[j].Path) <=> (Specs[i].Name = Specs[j].Name)
        /\ \A r \in ProjectIds :
              Cardinality({ i \in DOMAIN Specs : Specs[i].Name = PathOf(r) }) =
                 (IF Skipped(flagRepoDir, r, flagSkipMissing, resolves)
                    THEN 0 ELSE Count(filtered, r))

C3_Witness ==
    /\ Built
    /\ Len(flagGroups) > 1
    /\ \E i, j \in DOMAIN Specs : i # j /\ Specs[i].Path = Specs[j].Path
    /\ \E i, j \in DOMAIN Specs : Specs[i].Path # Specs[j].Path

(* ---- C4 ---- *)
\* C4: when archived repositories are excluded (-archived=false) no archived
\* project is in the emitted IndexSpec, for group listings and for the listing
\* of all accessible projects.
C4_NoArchived ==
    (Built /\ ~flagArchived) =>
        \A i \in DOMAIN Specs : \A r \in Named(Specs[i].Name) : ~Project[r].Archived

(* ---- C5 ---- *)
\* the string values json.MarshalIndent writes for an IndexSpec
FieldsOf(cfg) ==
    {cfg.Name} \cup UNION {
        LET e == cfg.Repositories[i]
        IN  { e.Path, e.Name, e.Metadata.Github, e.Metadata.Remote,
              e.Metadata.UrlPattern, e.CloneOptions.Username,
              e.CloneOptions.PasswordEnv }
            \cup { e.Revisions[k] : k \in DOMAIN e.Revisions }
        : i \in DOMAIN cfg.Repositories }

PasswordEnvRule ==
    \A i \in DOMAIN Specs :
        Specs[i].CloneOptions.PasswordEnv =
            (IF flagGitlabToken # <<>> THEN GITLAB_TOKEN ELSE <<>>)

\* C5 as claimed: with a credential configured no field of the specification
\* contains its literal value, for every credential value; PasswordEnv is
\* GITLAB_TOKEN, or empty without a credential.
C5_NoLiteralCredential ==
    Built =>
        /\ flagGitlabToken # <<>> =>
              \A f \in FieldsOf(config) : ~Contains(f, flagGitlabToken)
        /\ PasswordEnvRule

\* C5 amended: no field is computed from the credential: the specification is
\* the same for every non-empty credential value, and the file written is that
\* specification; PasswordEnv is GITLAB_TOKEN for every RepoSpec with a
\* credential and empty without one.  (The literal value can still occur where
\* another input or the name GITLAB_TOKEN already contains it.)
C5_CredentialNotCopied ==
    Built =>
        /\ flagGitlabToken # <<>> =>
              \A t \in Tokens \ {<<>>} :
                  buildConfig(flagName, flagRepoDir, repos, flagRevision,
                              flagSkipMissing, flagHTTP, t, resolves) = config
        /\ specFile.complete => specFile.content = config
        /\ PasswordEnvRule

C5_Witness ==
    /\ Built
    /\ flagGitlabToken # <<>>
    /\ Len(Specs) >= 2
    /\ specFile.complete

(* ---- C6 ---- *)
\* C6: every RepoSpec's Metadata.Remote is the project's SSH URL when -http
\* is unset and its HTTPS URL when it is set, the same choice for all.
C6_RemoteByProtocol ==
    Built =>
        \A i \in DOMAIN Specs : \A r \in Named(Specs[i].Name) :
            Specs[i].Metadata.Remote =
                (IF flagHTTP THEN Project[r].HTTPURLToRepo
                             ELSE Project[r].SSHURLToRepo)

C6_Witness ==
    /\ Built
    /\ flagHTTP
    /\ Len(Specs) >= 2
    /\ Specs[1].Name # Specs[2].Name

(* ---- C7 ---- *)
\* C7: the Names of IndexSpec.Repositories are in non-decreasing bytewise
\* order, and they are a permutation of the paths of the filtered descriptors
\* that the skip-missing check did not drop.
C7_SortedNames ==
    Built =>
        /\ \A i, j \in DOMAIN Specs : i < j => ~StrLess(Specs[j].Name, Specs[i].Name)
        /\ \A n \in RepoPaths :
              Cardinality({ i \in DOMAIN Specs : Specs[i].Name = n }) =
                 Cardinality({ k \in DOMAIN filtered :
                     /\ PathOf(filtered[k]) = n
                     /\ ~(flagSkipMissing /\ Join(flagRepoDir, n) \notin resolves) })
        /\ \A i \in DOMAIN Specs : Specs[i].Name \in RepoPaths

C7_Witness ==
    /\ Built
    /\ flagSkipMissing
    /\ Len(Specs) < Len(filtered)
    /\ \E i, j \in DOMAIN Specs : i # j /\ Specs[i].Name = Specs[j].Name
    /\ filtered # repos

(* ---- C8 ---- *)
\* loadRepos returned its projects
Discovered == Filtered \/ pc = "filterRepos"

PagingInv ==
    /\ pc = "loadRepos" =>
          /\ page = (IF lastNext \in {-1, 0} THEN 1 ELSE lastNext)
          /\ groupIdx \in 1..Len(flagGroups) \/ (flagGroups = <<>> /\ groupIdx = 1)
          /\ projects = served
    /\ Discovered => projects = served /\ lastNext = 0

PagingStep ==
    (pc = "loadRepos" /\ pc' # "fatal") =>
        /\ lastNext' = 0 =>
              IF Len(flagGroups) = 0 \/ groupIdx = Len(flagGroups)
                THEN pc' = "filterRepos"
                ELSE pc' = "loadRepos" /\ groupIdx' = groupIdx + 1 /\ page' = 1
        /\ lastNext' # 0 =>
              pc' = "loadRepos" /\ groupIdx' = groupIdx /\ page' = lastNext'
        /\ Len(projects') >= Len(projects)
        /\ SubSeq(projects', 1, Len(projects)) = projects
        /\ projects' = served'

\* every chain of next-page indicators reaches 0
ChainsEnd == [](pc = "loadRepos" => <>(pc # "loadRepos" \/ lastNext = 0))

\* C8: each sweep starts at page 1, requests the page the previous response
\* named, and ends exactly when the indicator is 0, going on to the next group
\* or returning; the projects returned are the items of every page answered,
\* in order, none dropped or merged; and when every chain of indicators
\* reaches 0, discovery ends.
C8_Paging ==
    /\ []PagingInv
    /\ [][PagingStep]_vars
    /\ ChainsEnd => (pc = "loadRepos" ~> pc # "loadRepos")

C8_Witness ==
    /\ pc = "filterRepos"
    /\ Len(flagGroups) > 1
    /\ Len(projects) = 3
    /\ projects[1] = projects[3]

(* ---- C9 ---- *)
Names(cfg) == [i \in DOMAIN cfg.Repositories |-> cfg.Repositories[i].Name]
Resolving(r) == Join(flagRepoDir, PathOf(r)) \in resolves
RepoNames(rs) == [i \in DOMAIN rs |-> PathOf(rs[i])]

SkipMissingInv ==
    Built =>
        IF flagSkipMissing
          THEN Names(config) = RepoNames(SelectSeq(repos, Resolving))
          ELSE Names(config) = RepoNames(repos)

\* C9: with skip-missing, exactly the repositories whose revision resolves
\* are in the IndexSpec, and a failed resolution is never fatal: buildConfig
\* always hands its result to writeConfig; without skip-missing there is one
\* RepoSpec per descriptor.
C9_SkipMissing ==
    /\ []SkipMissingInv
    /\ [][pc = "buildConfig" => (pc' = "writeConfig" /\ failure' = "none")]_vars

C9_Witness ==
    /\ Built
    /\ flagSkipMissing
    /\ Len(Specs) > 0
    /\ Len(Specs) < Len(repos)

(* ---- C10 ---- *)
\* C10: the delegate is launched only after the ignore list (if configured)
\* was loaded, discovery succeeded and the specification was written; a
\* failure to read the ignore list, to fetch a page, to create the directory
\* or to write the file ends the run without a launch, and after a failed
\* page fetch nothing was built or written from the partial set.
C10_FatalBeforeDelegate ==
    /\ launched =>
          /\ flagIgnorelist => ignorelist.present
          /\ projects = served /\ lastNext = 0
          /\ specFile.exists /\ specFile.complete /\ specFile.content = config
          /\ failure \in {"none", "run"}
    /\ failure \in {"ignorelist", "client", "fetch", "mkdir", "write"} =>
          pc = "fatal" /\ ~launched
    /\ failure = "fetch" =>
          projects = <<>> /\ repos = <<>> /\ config = NoConfig /\ ~specFile.exists

C10_Witness ==
    /\ pc = "done"
    /\ launched
    /\ flagIgnorelist
    /\ Len(Specs) >= 2

====
